---------------------------- MODULE Spec2Model ----------------------------
(***************************************************************************)
(* Model of src/app.py: the /analyze financial audit pipeline.             *)
(*                                                                         *)
(* Text is a sequence of one-character strings.  Numbers that the program  *)
(* holds as Python floats are exact rationals <<numerator, denominator>>   *)
(* in lowest terms with a positive denominator.                            *)
(***************************************************************************)
EXTENDS Integers, Sequences, FiniteSets, TLC

VARIABLES
    db,        \* committed rows of table audit_report, in commit order
    session,   \* db.session: rows added and not yet committed
    resp,      \* the HTTP response of the last /analyze request
    prompt,    \* what the last request sent to the narrative service
    narr,      \* what generate_ai_narrative returned in the last request
    audit,     \* what run_financial_audit returned in the last request
    req,       \* the inputs of the last request
    nReq,      \* requests handled so far
    nOk,       \* requests answered with the result payload so far
    dbBefore,  \* db as it was when the last request arrived
    arg,       \* argument of a function applied on its own
    ret        \* its return value

vars == <<db, session, resp, prompt, narr, audit, req, nReq, nOk, dbBefore, arg, ret>>

pipeVars == <<db, session, resp, prompt, narr, audit, req, nReq, nOk, dbBefore>>

\* Python's None where a str is expected: a one-element sequence that is no text
None == <<"None">>

NotCalled == [called |-> FALSE, value |-> <<>>]

Returned(v) == [called |-> TRUE, value |-> v]

(***************************************************************************)
(* Characters                                                              *)
(***************************************************************************)
Digits == {"0", "1", "2", "3", "4", "5", "6", "7", "8", "9"}

Uppers == {"A", "B", "C", "D", "E", "F", "G", "H", "I", "J", "K", "L", "M",
           "N", "O", "P", "Q", "R", "S", "T", "U", "V", "W", "X", "Y", "Z"}

Lowers == {"a", "b", "c", "d", "e", "f", "g", "h", "i", "j", "k", "l", "m",
           "n", "o", "p", "q", "r", "s", "t", "u", "v", "w", "x", "y", "z"}

\* \w
WordChars == Digits \cup Uppers \cup Lowers \cup {"_"}

\* [\w\.-]
EmailChars == WordChars \cup {".", "-"}

\* [ \t\n\r\f\v], what str.strip() removes
Whitespace == {" ", "\t", "\n", "\r", "\f"}

\* the character at position i, "" outside the text
At(t, i) == IF i >= 1 /\ i <= Len(t) THEN t[i] ELSE ""

AllIn(t, i, n, S) == \A k \in i..(i + n - 1) : At(t, k) \in S

SetMax(S) == CHOOSE m \in S : \A x \in S : x <= m

RECURSIVE Run(_, _, _)
\* the length of the longest run of characters of S that starts at i
Run(t, i, S) == IF At(t, i) \in S THEN 1 + Run(t, i + 1, S) ELSE 0

Take(t, n) == SubSeq(t, 1, IF Len(t) < n THEN Len(t) ELSE n)

(***************************************************************************)
(* mask_pii: four re.sub passes.  Each XEnd(t, i) is the position just     *)
(* after the match the pattern finds when tried at position i, 0 if none.  *)
(***************************************************************************)
PhoneCore(t, i) == At(t, i) \in {"7", "8", "9"} /\ AllIn(t, i + 1, 9, Digits)

\* (\+91|0)?[789]\d{9}
PhoneEnd(t, i) ==
    IF At(t, i) = "+" /\ At(t, i + 1) = "9" /\ At(t, i + 2) = "1" /\ PhoneCore(t, i + 3)
    THEN i + 13
    ELSE IF At(t, i) = "0" /\ PhoneCore(t, i + 1) THEN i + 11
    ELSE IF PhoneCore(t, i) THEN i + 10
    ELSE 0

\* \b
Boundary(t, i) == (At(t, i - 1) \in WordChars) # (At(t, i) \in WordChars)

\* \b\d{9,18}\b
AccEnd(t, i) ==
    LET ns == {n \in 9..18 : AllIn(t, i, n, Digits) /\ Boundary(t, i + n)}
    IN  IF At(t, i) \in Digits /\ Boundary(t, i) /\ ns # {} THEN i + SetMax(ns) ELSE 0

\* [A-Z]{5}[0-9]{4}[A-Z]{1}
PanEnd(t, i) ==
    IF AllIn(t, i, 5, Uppers) /\ AllIn(t, i + 5, 4, Digits) /\ At(t, i + 9) \in Uppers
    THEN i + 10
    ELSE 0

\* [\w\.-]+@[\w\.-]+\.\w+   (greedy, with backtracking of the domain part)
EmailEnd(t, i) ==
    LET a  == Run(t, i, EmailChars)
        j  == i + a + 1
        b  == Run(t, j, EmailChars)
        ks == {k \in 1..(b - 1) : At(t, j + k) = "." /\ At(t, j + k + 1) \in WordChars}
    IN  IF At(t, i) \in EmailChars /\ At(t, i + a) = "@" /\ ks # {}
        THEN j + SetMax(ks) + 1 + Run(t, j + SetMax(ks) + 1, WordChars)
        ELSE 0

MatchEnd(p, t, i) ==
    CASE p = "phone" -> PhoneEnd(t, i)
      [] p = "acc"   -> AccEnd(t, i)
      [] p = "pan"   -> PanEnd(t, i)
      [] p = "email" -> EmailEnd(t, i)

Replacement(p) ==
    CASE p = "phone" -> <<"[", "P", "H", "O", "N", "E", "_", "H", "I", "D", "D", "E", "N", "]">>
      [] p = "acc"   -> <<"[", "A", "C", "C", "_", "H", "I", "D", "D", "E", "N", "]">>
      [] p = "pan"   -> <<"[", "P", "A", "N", "_", "H", "I", "D", "D", "E", "N", "]">>
      [] p = "email" -> <<"[", "E", "M", "A", "I", "L", "_", "H", "I", "D", "D", "E", "N", "]">>

RECURSIVE SubFrom(_, _, _)
\* re.sub from position i on: leftmost matches, not overlapping, scanned once
SubFrom(p, t, i) ==
    IF i > Len(t) THEN <<>>
    ELSE LET e == MatchEnd(p, t, i)
         IN  IF e > 0 THEN Replacement(p) \o SubFrom(p, t, e)
             ELSE <<t[i]>> \o SubFrom(p, t, i + 1)

ReSub(p, t) == SubFrom(p, t, 1)

mask_pii(text) ==
    IF text = None \/ text = <<>> THEN <<>>
    ELSE ReSub("email", ReSub("pan", ReSub("acc", ReSub("phone", text))))

(***************************************************************************)
(* Numbers.  A Python float is a rational <<n, d>> in lowest terms, d > 0,  *)
(* and arithmetic on it is exact.  A value that is always a Python int is  *)
(* an integer.  A value that is an int on one path and a float on another  *)
(* is [q |-> <<n, d>>, int |-> BOOLEAN].                                   *)
(***************************************************************************)
Abs(n) == IF n < 0 THEN -n ELSE n

RECURSIVE GCD(_, _)
GCD(a, b) == IF b = 0 THEN a ELSE GCD(b, a % b)

Norm(n, d) ==
    LET s == IF d < 0 THEN -1 ELSE 1
        g == GCD(Abs(n), Abs(d))
    IN  <<(s * n) \div g, (s * d) \div g>>

PyInt(n) == [q |-> <<n, 1>>, int |-> TRUE]

PyFloat(q) == [q |-> q, int |-> FALSE]

RAdd(a, b) == Norm(a[1] * b[2] + b[1] * a[2], a[2] * b[2])

RSub(a, b) == Norm(a[1] * b[2] - b[1] * a[2], a[2] * b[2])

RMul(a, b) == Norm(a[1] * b[1], a[2] * b[2])

RDiv(a, b) == Norm(a[1] * b[2], a[2] * b[1])

RAbs(a) == <<Abs(a[1]), a[2]>>

\* x > 0, x < 0, x == 0
IsPos(q) == q[1] > 0

IsNeg(q) == q[1] < 0

IsZero(q) == q[1] = 0

RLess(a, b) == a[1] * b[2] < b[1] * a[2]

Floor(q) == q[1] \div q[2]

\* int(x): truncation toward zero
Trunc(q) == IF q[1] >= 0 THEN q[1] \div q[2] ELSE -((-q[1]) \div q[2])

\* round(x): to the nearest integer, a tie to the even one
Round(q) ==
    LET f == Floor(q)
        r == 2 * (q[1] - f * q[2])
    IN  IF r < q[2] THEN f
        ELSE IF r > q[2] THEN f + 1
        ELSE IF f % 2 = 0 THEN f ELSE f + 1

\* round(x, 2) of a float
Round2(q) == Norm(Round(RMul(q, <<100, 1>>)), 100)

Min2(a, b) == IF a < b THEN a ELSE b

Max2(a, b) == IF a > b THEN a ELSE b

RECURSIVE Pow10(_)
Pow10(k) == IF k = 0 THEN 1 ELSE 10 * Pow10(k - 1)

DigitChar(d) == <<"0", "1", "2", "3", "4", "5", "6", "7", "8", "9">>[d + 1]

DigitVal(c) == CHOOSE d \in 0..9 : DigitChar(d) = c

RECURSIVE NatStr(_)
NatStr(n) == IF n < 10 THEN <<DigitChar(n)>> ELSE NatStr(n \div 10) \o <<DigitChar(n % 10)>>

\* str(n) of an int
IntStr(n) == IF n < 0 THEN <<"-">> \o NatStr(-n) ELSE NatStr(n)

RECURSIVE PadLeft(_, _)
PadLeft(t, k) == IF Len(t) >= k THEN t ELSE PadLeft(<<"0">> \o t, k)

\* the decimal places a float's repr shows (0 for a whole number)
MaxDecimals == 6

DecimalPlaces(q) == CHOOSE k \in 0..MaxDecimals :
    /\ (q[1] * Pow10(k)) % q[2] = 0
    /\ \A j \in 0..(k - 1) : (q[1] * Pow10(j)) % q[2] # 0

\* str(x) of a float in positional notation: "100.0", "2.5", "-0.75"
FloatStr(q) ==
    LET k == DecimalPlaces(q)
        v == (Abs(q[1]) * Pow10(k)) \div q[2]
        whole == NatStr(v \div Pow10(k))
        frac  == IF k = 0 THEN <<"0">> ELSE PadLeft(NatStr(v % Pow10(k)), k)
    IN  (IF q[1] < 0 THEN <<"-">> ELSE <<>>) \o whole \o <<".">> \o frac

\* str(x) of a value that is an int or a float
NumStr(x) == IF x.int THEN IntStr(x.q[1]) ELSE FloatStr(x.q)

(***************************************************************************)
(* run_financial_audit                                                     *)
(***************************************************************************)
Manufacturing == <<"M", "a", "n", "u", "f", "a", "c", "t", "u", "r", "i", "n", "g">>

Retail == <<"R", "e", "t", "a", "i", "l">>

Services == <<"S", "e", "r", "v", "i", "c", "e", "s">>

Agri == <<"A", "g", "r", "i">>

\* benchmarks.get(industry, 0.2)
Benchmark(industry) ==
    CASE industry = Manufacturing -> <<1, 4>>
      [] industry = Retail        -> <<3, 25>>
      [] industry = Services      -> <<7, 20>>
      [] industry = Agri          -> <<3, 20>>
      [] OTHER                    -> <<1, 5>>

\* margin = (income - expense) / income if income > 0 else 0
Margin(income, expense) ==
    IF IsPos(income) THEN PyFloat(RDiv(RSub(income, expense), income)) ELSE PyInt(0)

\* (margin / target) * 100
Ratio(margin, target) == RMul(RDiv(margin.q, target), <<100, 1>>)

\* max(0, min(int((margin / target) * 100), 100))
Score(margin, target) == Max2(0, Min2(Trunc(Ratio(margin, target)), 100))

\* a faulty variant of Loan: the thresholds compared strictly
LoanFlipped(score) ==
    IF score > 85 THEN "SBI/HDFC - CGTMSE Collateral-Free"
    ELSE IF score > 60 THEN "LendingKart - Working Capital (NBFC)"
    ELSE "MUDRA Scheme - Govt Grant"

Loan(score) ==
    IF score >= 85 THEN "SBI/HDFC - CGTMSE Collateral-Free"
    ELSE IF score >= 60 THEN "LendingKart - Working Capital (NBFC)"
    ELSE "MUDRA Scheme - Govt Grant"

\* runway = round((income / expense) * 30) if expense > 0 else 365
Runway(income, expense) ==
    IF IsPos(expense)
    THEN Round(RMul(RDiv(income, expense), <<30, 1>>))
    ELSE 365

run_financial_audit(income, expense, industry) ==
    LET margin == Margin(income, expense)
        score  == Score(margin, Benchmark(industry))
    IN  [score |-> score, margin |-> margin, loan |-> Loan(score),
         runway |-> Runway(income, expense)]

(***************************************************************************)
(* Text helpers                                                            *)
(***************************************************************************)
UpperSeq == <<"A", "B", "C", "D", "E", "F", "G", "H", "I", "J", "K", "L", "M",
              "N", "O", "P", "Q", "R", "S", "T", "U", "V", "W", "X", "Y", "Z">>

LowerSeq == <<"a", "b", "c", "d", "e", "f", "g", "h", "i", "j", "k", "l", "m",
              "n", "o", "p", "q", "r", "s", "t", "u", "v", "w", "x", "y", "z">>

LowerChar(c) ==
    IF c \in Uppers THEN LowerSeq[CHOOSE i \in 1..26 : UpperSeq[i] = c] ELSE c

\* str.lower()
Lower(t) == [i \in 1..Len(t) |-> LowerChar(t[i])]

RECURSIVE LStrip(_)
LStrip(t) == IF t # <<>> /\ Head(t) \in Whitespace THEN LStrip(Tail(t)) ELSE t

RECURSIVE RStrip(_)
RStrip(t) ==
    IF t # <<>> /\ t[Len(t)] \in Whitespace THEN RStrip(SubSeq(t, 1, Len(t) - 1)) ELSE t

\* str.strip()
Strip(t) == RStrip(LStrip(t))

\* x in t
Contains(t, x) ==
    \E i \in 1..(Len(t) - Len(x) + 1) : SubSeq(t, i, i + Len(x) - 1) = x

\* str(v) of a str or None
Str(v) == IF v = None THEN <<"N", "o", "n", "e">> ELSE v

RECURSIVE Join(_, _)
\* sep.join(parts)
Join(parts, sep) ==
    IF parts = <<>> THEN <<>>
    ELSE IF Len(parts) = 1 THEN parts[1]
    ELSE parts[1] \o sep \o Join(Tail(parts), sep)

(***************************************************************************)
(* clean_num                                                               *)
(***************************************************************************)
\* what re.sub(r'[^\d.-]', '', s) keeps
IsNumChar(c) == c \in Digits \cup {".", "-"}

RECURSIVE DigitsVal(_)
DigitsVal(t) == IF t = <<>> THEN 0 ELSE 10 * DigitsVal(SubSeq(t, 1, Len(t) - 1)) + DigitVal(t[Len(t)])

\* whether float(s) parses s, a text of digits, "." and "-"
FloatParses(s) ==
    LET body == IF s # <<>> /\ s[1] = "-" THEN Tail(s) ELSE s
    IN  /\ \A i \in 1..Len(body) : body[i] # "-"
        /\ Cardinality({i \in 1..Len(body) : body[i] = "."}) <= 1
        /\ \E i \in 1..Len(body) : body[i] \in Digits

\* float(s) where it parses
FloatOf(s) ==
    LET neg    == s[1] = "-"
        body   == IF neg THEN Tail(s) ELSE s
        digits == SelectSeq(body, LAMBDA c : c \in Digits)
        dots   == {i \in 1..Len(body) : body[i] = "."}
        places == IF dots = {} THEN 0 ELSE Len(body) - SetMax(dots)
        v      == Norm(DigitsVal(digits), Pow10(places))
    IN  IF neg THEN <<-v[1], v[2]>> ELSE v

clean_num(val) ==
    IF val = None THEN <<0, 1>>
    ELSE LET s == SelectSeq(val, IsNumChar)
         IN  IF FloatParses(s) THEN FloatOf(s) ELSE <<0, 1>>

(***************************************************************************)
(* The table (DataFrame): [columns |-> names, rows |-> rows of cells].     *)
(* A cell is what str(val) gives, or None.                                 *)
(***************************************************************************)
\* df.columns = [str(c).strip().lower() for c in df.columns]
NormalizeColumns(columns) == [i \in 1..Len(columns) |-> Lower(Strip(Str(columns[i])))]

AmountWords ==
    { <<"a", "m", "o", "u", "n", "t">>, <<"a", "m", "t">>,
      <<"v", "a", "l", "u", "e">>, <<"b", "a", "l", "a", "n", "c", "e">> }

IsAmountName(c) == \E x \in AmountWords : Contains(c, x)

\* next((c for c in df.columns if any(...)), None): the position of the first
\* such column, 0 for None
AmtCol(columns) ==
    LET hits == {i \in 1..Len(columns) : IsAmountName(columns[i])}
    IN  IF hits = {} THEN 0 ELSE CHOOSE i \in hits : \A j \in hits : i <= j

\* df['clean_amt'] = df[amt_col].apply(clean_num)
CleanAmt(rows, col) == [i \in 1..Len(rows) |-> clean_num(rows[i][col])]

RECURSIVE Sum(_)
\* Series.sum()
Sum(amts) == IF amts = <<>> THEN <<0, 1>> ELSE RAdd(Head(amts), Sum(Tail(amts)))

\* a faulty variant of Income: the negative amounts summed in as well
IncomeSumsAll(amts) == Sum(amts)

\* float(df[df['clean_amt'] > 0]['clean_amt'].sum())
Income(amts) == Sum(SelectSeq(amts, IsPos))

\* float(abs(df[df['clean_amt'] < 0]['clean_amt'].sum()))
RawExpense(amts) == RAbs(Sum(SelectSeq(amts, IsNeg)))

\* a faulty variant of Expense: the 70% fallback left out
ExpenseNoFallback(amts) == RawExpense(amts)

\* if expense == 0 and income > 0: expense = income * 0.7
Expense(amts) ==
    IF IsZero(RawExpense(amts)) /\ IsPos(Income(amts))
    THEN RMul(Income(amts), <<7, 10>>)
    ELSE RawExpense(amts)

(***************************************************************************)
(* generate_ai_narrative.  The fixed text of its two f-strings:             *)
(***************************************************************************)
PromptHead ==
    <<"Y", "o", "u", " ", "a", "r", "e", " ", "a", " ", "S", "e", "n", "i",
      "o", "r", " ", "F", "i", "n", "a", "n", "c", "i", "a", "l", " ", "S",
      "M", "E", " ", "C", "o", "n", "s", "u", "l", "t", "a", "n", "t", ".",
      " ", "W", "r", "i", "t", "e", " ", "a", " ", "h", "i", "g", "h", "-",
      "v", "a", "l", "u", "e", " ", "S", "t", "r", "a", "t", "e", "g", "i",
      "c", " ", "A", "u", "d", "i", "t", " ", "R", "e", "p", "o", "r", "t",
      " ", "f", "o", "r", " ", "a", " ", "b", "u", "s", "i", "n", "e", "s",
      "s", " ", "i", "n", " ", "t", "h", "e", " ">>

PromptRevenue ==
    <<" ", "s", "e", "c", "t", "o", "r", ".", "\n", "\n", "M", "E", "T", "R",
      "I", "C", "S", ":", "\n", "-", " ", "M", "o", "n", "t", "h", "l", "y",
      " ", "R", "e", "v", "e", "n", "u", "e", ":", " ", "I", "N", "R", " ">>

PromptExpenses ==
    <<"\n", "-", " ", "M", "o", "n", "t", "h", "l", "y", " ", "E", "x", "p",
      "e", "n", "s", "e", "s", ":", " ", "I", "N", "R", " ">>

PromptMargin ==
    <<"\n", "-", " ", "P", "r", "o", "f", "i", "t", " ", "M", "a", "r", "g",
      "i", "n", ":", " ">>

PromptScore ==
    <<"%", "\n", "-", " ", "H", "e", "a", "l", "t", "h", " ", "S", "c", "o",
      "r", "e", ":", " ">>

PromptRunway ==
    <<"/", "1", "0", "0", "\n", "-", " ", "E", "s", "t", ".", " ", "C", "a",
      "s", "h", " ", "R", "u", "n", "w", "a", "y", ":", " ">>

PromptData ==
    <<" ", "D", "a", "y", "s", "\n", "\n", "C", "O", "N", "T", "E", "X", "T",
      "U", "A", "L", " ", "D", "A", "T", "A", ":", "\n">>

PromptTail ==
    <<"\n", "\n", "S", "T", "R", "U", "C", "T", "U", "R", "E", " ", "Y", "O",
      "U", "R", " ", "R", "E", "S", "P", "O", "N", "S", "E", " ", "E", "X",
      "A", "C", "T", "L", "Y", " ", "L", "I", "K", "E", " ", "T", "H", "I",
      "S", ":", "\n", "1", ".", " ", "R", "I", "S", "K", " ", "A", "N", "A",
      "L", "Y", "S", "I", "S", ":", " ", "D", "e", "t", "a", "i", "l", "e",
      "d", " ", "b", "r", "e", "a", "k", "d", "o", "w", "n", " ", "o", "f",
      " ", "t", "h", "e", " ", "s", "c", "o", "r", "e", " ", "a", "n", "d",
      " ", "b", "u", "r", "n", " ", "r", "a", "t", "e", ".", "\n", "2", ".",
      " ", "3", "-", "M", "O", "N", "T", "H", " ", "F", "O", "R", "E", "C",
      "A", "S", "T", ":", " ", "S", "p", "e", "c", "i", "f", "i", "c", " ",
      "p", "r", "e", "d", "i", "c", "t", "i", "o", "n", "s", " ", "b", "a",
      "s", "e", "d", " ", "o", "n", " ", "t", "h", "e", " ", "r", "u", "n",
      "w", "a", "y", ".", "\n", "3", ".", " ", "G", "R", "O", "W", "T", "H",
      " ", "S", "T", "R", "A", "T", "E", "G", "Y", ":", " ", "O", "n", "e",
      " ", "i", "n", "d", "u", "s", "t", "r", "y", "-", "s", "p", "e", "c",
      "i", "f", "i", "c", " ", "c", "o", "s", "t", " ", "s", "a", "v", "i",
      "n", "g", " ", "a", "n", "d", " ", "o", "n", "e", " ", "e", "x", "p",
      "a", "n", "s", "i", "o", "n", " ", "t", "i", "p", ".", "\n">>

SummaryHead ==
    <<"E", "X", "E", "C", "U", "T", "I", "V", "E", " ", "A", "U", "D", "I",
      "T", " ", "S", "U", "M", "M", "A", "R", "Y", ":", "\n", "T", "h", "e",
      " ", "b", "u", "s", "i", "n", "e", "s", "s", " ", "i", "s", " ", "o",
      "p", "e", "r", "a", "t", "i", "n", "g", " ", "i", "n", " ", "t", "h",
      "e", " ">>

SummaryScore ==
    <<" ", "s", "e", "c", "t", "o", "r", " ", "w", "i", "t", "h", " ", "a",
      " ", "h", "e", "a", "l", "t", "h", " ", "s", "c", "o", "r", "e", " ",
      "o", "f", " ">>

SummaryRevenue ==
    <<"/", "1", "0", "0", ".", " ", "W", "i", "t", "h", " ", "a", " ", "m",
      "o", "n", "t", "h", "l", "y", " ", "r", "e", "v", "e", "n", "u", "e",
      " ", "o", "f", " ", "I", "N", "R", " ">>

SummaryExpenses ==
    <<" ", "a", "n", "d", " ", "e", "x", "p", "e", "n", "s", "e", "s", " ",
      "o", "f", " ", "I", "N", "R", " ">>

SummaryRunway ==
    <<",", " ", "t", "h", "e", " ", "c", "u", "r", "r", "e", "n", "t", " ",
      "c", "a", "s", "h", " ", "r", "u", "n", "w", "a", "y", " ", "i", "s",
      " ", "a", "p", "p", "r", "o", "x", "i", "m", "a", "t", "e", "l", "y",
      " ">>

SummaryTail ==
    <<" ", "d", "a", "y", "s", ".", " ", "S", "t", "r", "a", "t", "e", "g",
      "y", ":", " ", "F", "o", "c", "u", "s", " ", "o", "n", " ", "r", "e",
      "d", "u", "c", "i", "n", "g", " ", "f", "i", "x", "e", "d", " ", "c",
      "o", "s", "t", "s", ".">>

SampleCap == 2000

\* round(margin*100, 2): an int stays an int
MarginPct(margin) ==
    IF margin.int THEN PyInt(margin.q[1] * 100)
    ELSE PyFloat(Round2(RMul(margin.q, <<100, 1>>)))

\* the prompt f-string (lines 65-79), the industry and the sample embedded as given
PromptText(income, expense, margin, score, industry, runway, safe_data) ==
    PromptHead \o industry \o PromptRevenue \o FloatStr(income)
        \o PromptExpenses \o FloatStr(expense)
        \o PromptMargin \o NumStr(MarginPct(margin))
        \o PromptScore \o IntStr(score)
        \o PromptRunway \o IntStr(runway)
        \o PromptData \o safe_data \o PromptTail

\* the templated summary (lines 93-98)
Summary(income, expense, score, industry, runway) ==
    SummaryHead \o industry \o SummaryScore \o IntStr(score)
        \o SummaryRevenue \o FloatStr(income)
        \o SummaryExpenses \o FloatStr(expense)
        \o SummaryRunway \o IntStr(runway) \o SummaryTail

\* if response.text: a str that is not empty
Truthy(text) == text # None /\ text # <<>>

\* lines 87-88: what the try block returns when it returns
Reply(ai) == Strip(ai.text)

\* lines 81-91: whether control reaches the templated summary
FallsBack(ai) == ai.raises \/ ~Truthy(ai.text)

\* ai is what client.models.generate_content does when called:
\* [raises |-> BOOLEAN, text |-> response.text]
generate_ai_narrative(income, expense, margin, score, industry, runway, raw_data_sample, ai) ==
    LET safe_data == mask_pii(Take(raw_data_sample, SampleCap))
    IN  [prompt |-> PromptText(income, expense, margin, score, industry, runway, safe_data),
         value  |-> IF FallsBack(ai)
                    THEN Summary(income, expense, score, industry, runway)
                    ELSE Reply(ai)]

(***************************************************************************)
(* analyze: the POST /analyze handler.                                     *)
(*                                                                         *)
(* A request r is                                                          *)
(*   [hasFile  |-> 'file' in request.files,                                *)
(*    suffix   |-> "pdf", "csv" or "other", by file.filename.endswith,     *)
(*    readable |-> whether pdfplumber.open / pd.read_csv / pd.read_excel   *)
(*                 reads the file (they raise otherwise),                  *)
(*    pages    |-> for a PDF, each page's [text, table]: extract_text()    *)
(*                 and extract_table(), a table being its rows and <<>>    *)
(*                 standing for None,                                      *)
(*    table    |-> for the other kinds, the table read,                    *)
(*    industry |-> request.form's 'industry', None when absent].           *)
(***************************************************************************)
RECURSIVE PageTexts(_)
\* [page.extract_text() or "" for page in pdf.pages]
PageTexts(pages) ==
    IF pages = <<>> THEN <<>>
    ELSE <<IF Truthy(Head(pages).text) THEN Head(pages).text ELSE <<>>>>
             \o PageTexts(Tail(pages))

RECURSIVE TableData(_)
\* for page in pdf.pages: table = page.extract_table(); if table: table_data.extend(table)
TableData(pages) ==
    IF pages = <<>> THEN <<>> ELSE Head(pages).table \o TableData(Tail(pages))

RowLine(rows, i) ==
    IntStr(i - 1) \o <<" ">> \o Join([j \in 1..Len(rows[i]) |-> Str(rows[i][j])], <<" ">>)

\* df.to_string(): a header line, then one line per row led by its index
\* (the padding that aligns the columns is left out)
DfToString(df) ==
    Join(<<<<" ">> \o Join([j \in 1..Len(df.columns) |-> Str(df.columns[j])], <<" ">>)>>
            \o [i \in 1..Len(df.rows) |-> RowLine(df.rows, i)],
         <<"\n">>)

\* request.form.get('industry', 'Manufacturing')
IndustryOf(r) == IF r.industry = None THEN Manufacturing ELSE r.industry

\* lines 112-125
FrameOf(r) ==
    IF r.suffix = "pdf"
    THEN [columns |-> Head(TableData(r.pages)), rows |-> Tail(TableData(r.pages))]
    ELSE r.table

RawSampleOf(r) ==
    IF r.suffix = "pdf" THEN Join(PageTexts(r.pages), <<" ">>) ELSE DfToString(r.table)

NoResponse == [status |-> 0, body |-> [pending |-> TRUE]]

NoPrompt == [sent |-> FALSE, text |-> <<>>]

\* a faulty variant of ErrorOut: every error answered with status 500
ErrorOutAlways500(status, message, rollback) ==
    [resp |-> [status |-> 500, body |-> [error |-> message]],
     prompt |-> NoPrompt, narr |-> NotCalled, audit |-> NotCalled,
     added |-> <<>>, commit |-> FALSE, rollback |-> rollback]

\* return jsonify({"error": ...}), status; with the rollback of line 161 or without
ErrorOut(status, message, rollback) ==
    [resp |-> [status |-> status, body |-> [error |-> message]],
     prompt |-> NoPrompt, narr |-> NotCalled, audit |-> NotCalled,
     added |-> <<>>, commit |-> FALSE, rollback |-> rollback]

\* a faulty variant of ResultBody: the runway field left out
ResultBodyNoRunway(income, expense, a, report_en) ==
    [income |-> income, expense |-> expense, score |-> a.score,
     loan |-> a.loan, report_en |-> report_en]

\* lines 155-158
ResultBody(income, expense, a, report_en) ==
    [income |-> income, expense |-> expense, score |-> a.score,
     loan |-> a.loan, report_en |-> report_en, runway |-> a.runway]

\* lines 148-151; the id is the one the commit assigns
AuditReport(id, industry, income, a, report_en) ==
    [id |-> id, industry |-> industry, revenue |-> FloatStr(income),
     health_score |-> a.score, loan_product |-> a.loan, report_en |-> report_en]

\* lines 139-158, reached once the amount column is found
RunPipeline(r, col, ai, dbOk, nextId) ==
    LET industry == IndustryOf(r)
        amts     == CleanAmt(FrameOf(r).rows, col)
        income   == Income(amts)
        expense  == Expense(amts)
        a        == run_financial_audit(income, expense, industry)
        n        == generate_ai_narrative(income, expense, a.margin, a.score,
                                          industry, a.runway, RawSampleOf(r), ai)
    IN  [resp |-> IF dbOk
                  THEN [status |-> 200, body |-> ResultBody(income, expense, a, n.value)]
                  ELSE [status |-> 500, body |-> [error |-> "commit failed"]],
         prompt |-> [sent |-> TRUE, text |-> n.prompt],
         narr |-> Returned(n.value),
         audit |-> Returned(a),
         added |-> <<AuditReport(nextId, industry, income, a, n.value)>>,
         commit |-> dbOk,
         rollback |-> ~dbOk]

\* what one run of the handler does, lines 102-163
Handle(r, ai, dbOk, nextId) ==
    IF ~r.hasFile THEN ErrorOut(400, "No file uploaded", FALSE)
    ELSE IF ~r.readable THEN ErrorOut(500, "cannot read the file", TRUE)
    ELSE IF r.suffix = "pdf" /\ TableData(r.pages) = <<>>
    THEN ErrorOut(400, "No structured table data found in PDF", FALSE)
    ELSE LET col == AmtCol(NormalizeColumns(FrameOf(r).columns))
         IN  IF col = 0 THEN ErrorOut(400, "Amount column not found", FALSE)
             ELSE RunPipeline(r, col, ai, dbOk, nextId)

\* a faulty variant of SessionAfter: no rollback after a failed commit
SessionKeepsFailedRow(sess, out) == IF out.commit THEN <<>> ELSE sess \o out.added

\* db.session after add (line 152), commit (153) and rollback (161)
SessionAfter(sess, out) ==
    IF out.commit \/ out.rollback THEN <<>> ELSE sess \o out.added

\* the committed rows after the commit of line 153
DbAfter(rows, sess, out) == IF out.commit THEN rows \o sess \o out.added ELSE rows

Analyze(r, ai, dbOk) ==
    \E out \in {Handle(r, ai, dbOk, Len(db) + 1)} :
        /\ resp' = out.resp
        /\ prompt' = out.prompt
        /\ narr' = out.narr
        /\ audit' = out.audit
        /\ db' = DbAfter(db, session, out)
        /\ session' = SessionAfter(session, out)
        /\ req' = [r |-> r, ai |-> ai, dbOk |-> dbOk]
        /\ dbBefore' = db
        /\ nReq' = nReq + 1
        /\ nOk' = IF out.resp.status = 200 THEN nOk + 1 ELSE nOk
        /\ UNCHANGED <<arg, ret>>

(***************************************************************************)
(* The inputs the specifications draw from                                 *)
(***************************************************************************)
\* what the narrative service does when called: it raises (a timeout, a
\* transport error), or it answers with response.text absent, empty, blank or
\* a text
AiOutcomes ==
    { [raises |-> TRUE,  text |-> None],
      [raises |-> FALSE, text |-> None],
      [raises |-> FALSE, text |-> <<>>],
      [raises |-> FALSE, text |-> <<" ", "\n">>],
      [raises |-> FALSE, text |-> <<" ", "O", "K", ".", "\n">>] }

Cell100 == <<"1", "0", "0">>

CellNeg80 == <<"-", "8", "0">>

CellRs == <<"R", "s", " ", "2", ".", "5">>

CellBad == <<"1", "-", "2">>

Cells == {Cell100, CellNeg80, CellRs, CellBad, None}

Filler == <<"J", "a", "n">>

\* the amount column is the second, after normalisation
HeaderAmount == <<<<"D", "a", "t", "e">>, <<" ", "A", "m", "o", "u", "n", "t", " ">>>>

\* no column is an amount column
HeaderNone == <<<<"D", "a", "t", "e">>, <<"T", "o", "t", "a", "l">>>>

\* both columns are: the first one, which holds no number, is taken
HeaderBoth == <<<<"V", "a", "l", "u", "e">>, <<"B", "a", "l", "a", "n", "c", "e">>>>

Headers == {HeaderAmount, HeaderNone, HeaderBoth}

TableOf(header, cells) ==
    [columns |-> header, rows |-> [i \in 1..Len(cells) |-> <<Filler, cells[i]>>]]

EmptyTable == [columns |-> <<>>, rows |-> <<>>]

TextPhone == <<"P", "h", " ", "9", "8", "7", "6", "5", "4", "3", "2", "1", "0">>

TextPan == <<"A", "B", "C", "D", "E", "1", "2", "3", "4", "F", "1", "2", "3", "4", "5", "6", "7", "8", "9">>

EmailLabel == <<"a", "@", "b", ".", "c", "o">>

\* a PDF of one page that holds the table and the text
PdfOnePage(text, t) == <<[text |-> text, table |-> <<t.columns>> \o t.rows]>>

\* a PDF whose first page holds neither text nor table, and whose second the table
PdfTwoPages(text, t) ==
    <<[text |-> None, table |-> <<>>], [text |-> text, table |-> <<t.columns>> \o t.rows]>>

PdfRequest(pages, industry) ==
    [hasFile |-> TRUE, suffix |-> "pdf", readable |-> TRUE, pages |-> pages,
     table |-> EmptyTable, industry |-> industry]

TableRequest(suffix, t, industry) ==
    [hasFile |-> TRUE, suffix |-> suffix, readable |-> TRUE, pages |-> <<>>,
     table |-> t, industry |-> industry]

NoFileRequest(industry) ==
    [hasFile |-> FALSE, suffix |-> "other", readable |-> TRUE, pages |-> <<>>,
     table |-> EmptyTable, industry |-> industry]

UnreadableRequest(suffix, industry) ==
    [hasFile |-> TRUE, suffix |-> suffix, readable |-> FALSE, pages |-> <<>>,
     table |-> EmptyTable, industry |-> industry]

NoRequest == [r |-> NoFileRequest(None), ai |-> [raises |-> FALSE, text |-> None], dbOk |-> TRUE]

(***************************************************************************)
(* SpecMask: mask_pii applied to texts built from a few fragments.         *)
(***************************************************************************)
MaxSegs == 3

Segments ==
    { <<"9", "8", "7", "6", "5", "4", "3", "2", "1", "0">>,
      <<"+", "9", "1">>,
      <<"0">>,
      <<"1", "2", "3", "4", "5", "6", "7", "8", "9">>,
      <<"A", "B", "C", "D", "E", "1", "2", "3", "4", "F">>,
      <<"a", "@", "b", ".", "c", "o">>,
      <<" ">>,
      <<"x">>,
      <<".">> }

\* the state once the module is loaded: db.create_all() on an empty database
pipeIdle ==
    /\ db = <<>> /\ session = <<>> /\ resp = NoResponse /\ prompt = NoPrompt
    /\ narr = NotCalled /\ audit = NotCalled /\ req = NoRequest /\ nReq = 0 /\ nOk = 0
    /\ dbBefore = <<>>

InitMask == pipeIdle /\ arg \in {[text |-> <<>>, segs |-> 0], [text |-> None, segs |-> MaxSegs]} /\ ret = NotCalled

ExtendText ==
    /\ ~ret.called
    /\ arg.segs < MaxSegs
    /\ \E s \in Segments : arg' = [text |-> arg.text \o s, segs |-> arg.segs + 1]
    /\ UNCHANGED <<ret, pipeVars>>

CallMask ==
    /\ ~ret.called
    /\ ret' = Returned(mask_pii(arg.text))
    /\ UNCHANGED <<arg, pipeVars>>

NextMask == ExtendText \/ CallMask

SpecMask == InitMask /\ [][NextMask]_vars

(***************************************************************************)
(* SpecAudit: run_financial_audit applied to a grid of amounts.            *)
(***************************************************************************)
MaxUnits == 12

AuditAmounts ==
    {<<k * 10, 1>> : k \in (-1)..MaxUnits}
        \cup {<<5, 2>>, <<900, 1>>, <<1000, 1>>, <<35000, 1>>, <<50000, 1>>,
              <<70000, 1>>, <<100000, 1>>}

Unknown == <<"u", "n", "k", "n", "o", "w", "n">>

AuditIndustries == {Manufacturing, Retail, Services, Agri, Unknown}

InitAudit ==
    /\ pipeIdle
    /\ arg \in [income : AuditAmounts, expense : AuditAmounts, industry : AuditIndustries]
    /\ ret = NotCalled

CallAudit ==
    /\ ~ret.called
    /\ ret' = Returned(run_financial_audit(arg.income, arg.expense, arg.industry))
    /\ UNCHANGED <<arg, pipeVars>>

NextAudit == CallAudit

SpecAudit == InitAudit /\ [][NextAudit]_vars

(***************************************************************************)
(* Spec: sequences of /analyze requests, one handled at a time.            *)
(***************************************************************************)
MaxRequests == 2

SeqRequests ==
    { NoFileRequest(None),
      UnreadableRequest("csv", None),
      PdfRequest(<<[text |-> TextPhone, table |-> <<>>]>>, None),
      TableRequest("csv", TableOf(HeaderNone, <<Cell100>>), Services),
      PdfRequest(PdfOnePage(TextPhone, TableOf(HeaderAmount, <<Cell100, CellNeg80>>)), None),
      TableRequest("csv", TableOf(HeaderAmount, <<Cell100>>), Services),
      TableRequest("other", TableOf(HeaderAmount, <<None>>), EmailLabel) }

Init == pipeIdle /\ arg = <<>> /\ ret = NotCalled

Next ==
    /\ nReq < MaxRequests
    /\ \E r \in SeqRequests, ai \in AiOutcomes, dbOk \in BOOLEAN : Analyze(r, ai, dbOk)

Spec == Init /\ [][Next]_vars

(***************************************************************************)
(* SpecRun: one /analyze request, over every small document.               *)
(***************************************************************************)
MaxRows == 2

Ledgers == UNION {[1..k -> Cells] : k \in 0..MaxRows}

RunIndustries == {None, Services, EmailLabel}

RunTexts == {TextPhone, TextPan}

\* every ledger under the amount header, as a CSV; a few ledgers under the
\* other headers, kinds of file and shapes of PDF; the requests that fail early
RunRequests ==
    {TableRequest("csv", TableOf(HeaderAmount, cells), i) : cells \in Ledgers, i \in RunIndustries}
        \cup {TableRequest(sfx, TableOf(h, cells), Agri) :
                sfx \in {"csv", "other"}, h \in Headers, cells \in {<<Cell100>>, <<CellNeg80, CellRs>>}}
        \cup {PdfRequest(PdfOnePage(x, TableOf(h, <<Cell100, CellNeg80>>)), None) :
                x \in RunTexts, h \in Headers}
        \cup {PdfRequest(PdfTwoPages(x, TableOf(HeaderAmount, <<CellRs>>)), EmailLabel) : x \in RunTexts}
        \cup {PdfRequest(<<[text |-> x, table |-> <<>>]>>, None) : x \in RunTexts}
        \cup {UnreadableRequest(sfx, None) : sfx \in {"pdf", "csv", "other"}}
        \cup {NoFileRequest(i) : i \in RunIndustries}

NextRun ==
    /\ nReq = 0
    /\ \E r \in RunRequests, ai \in AiOutcomes, dbOk \in BOOLEAN : Analyze(r, ai, dbOk)

SpecRun == Init /\ [][NextRun]_vars

(***************************************************************************)
(* Properties                                                              *)
(***************************************************************************)
Handled == nReq > 0

\* the coerced amounts of the last request's ledger
LedgerAmounts ==
    CleanAmt(FrameOf(req.r).rows, AmtCol(NormalizeColumns(FrameOf(req.r).columns)))

NoNegative(amts) == \A i \in 1..Len(amts) : ~IsNeg(amts[i])

NoPositive(amts) == \A i \in 1..Len(amts) : ~IsPos(amts[i])

\* C1: generate_ai_narrative always returns a non-empty string, whatever the
\* narrative service does (it raises, or answers with an absent, empty, blank
\* or non-empty text); when the call raises, the string returned holds the
\* industry name and the health score.
C1_NarrativeNeverEmpty ==
    narr.called =>
        /\ Len(narr.value) > 0
        /\ req.ai.raises =>
              /\ Contains(narr.value, IndustryOf(req.r))
              /\ Contains(narr.value, IntStr(audit.value.score))

\* C2: every caller-supplied free text embedded in the prompt sent to the
\* narrative service (the raw text sample and the industry label) is the
\* output of mask_pii, never the unmasked original: a text that masking
\* changes does not occur in the prompt.
C2_PromptHoldsOnlyMaskedText ==
    prompt.sent =>
        \A x \in {IndustryOf(req.r), Take(RawSampleOf(req.r), SampleCap)} :
            mask_pii(x) # x => ~Contains(prompt.text, x)

\* C3: the committed audit records are as many as the requests answered with
\* the result payload; a request answered with an error payload leaves the
\* committed records as they were, and one answered with the result payload
\* adds exactly one.
C3_OneRecordPerSuccess ==
    /\ Len(db) = nOk
    /\ Handled /\ resp.status # 200 => db = dbBefore
    /\ Handled /\ resp.status = 200 =>
          /\ Len(db) = Len(dbBefore) + 1
          /\ SubSeq(db, 1, Len(dbBefore)) = dbBefore

C3_Witness ==
    /\ nReq = 2 /\ Len(db) = 1 /\ Len(dbBefore) = 1
    /\ resp.status = 500 /\ narr.called

\* a request rejected as a client-input error: an {error: string} payload
\* with a 4xx status, no scoring, no narrative call, no persistence write
Rejected ==
    /\ resp.status \in 400..499
    /\ DOMAIN resp.body = {"error"}
    /\ resp.body.error \in STRING
    /\ ~audit.called /\ ~narr.called /\ ~prompt.sent
    /\ session = <<>> /\ db = dbBefore

HasTable(r) == r.suffix # "pdf" \/ \E i \in 1..Len(r.pages) : r.pages[i].table # <<>>

HasAmountColumn(r) ==
    \E j \in 1..Len(FrameOf(r).columns) :
        IsAmountName(Lower(Strip(Str(FrameOf(r).columns[j]))))

\* C4: a request with no document, a PDF with no table and a table with no
\* amount column each end with an {error: string} payload and a 4xx status,
\* before scoring, the narrative call and any persistence write; a failed
\* commit is rolled back and ends with a 5xx status carrying the message; a
\* failure of the narrative service never produces an error payload.
C4_ErrorClassification ==
    Handled =>
        /\ ~req.r.hasFile => Rejected
        /\ req.r.hasFile /\ req.r.readable /\ ~HasTable(req.r) => Rejected
        /\ req.r.hasFile /\ req.r.readable /\ HasTable(req.r) /\ ~HasAmountColumn(req.r)
              => Rejected
        /\ narr.called /\ ~req.dbOk =>
              /\ resp.status \in 500..599
              /\ resp.body = [error |-> "commit failed"]
              /\ session = <<>> /\ db = dbBefore
        /\ narr.called /\ req.dbOk =>
              /\ resp.status = 200
              /\ "error" \notin DOMAIN resp.body

C4_Witness ==
    /\ Handled /\ req.r.hasFile /\ req.r.readable /\ ~HasTable(req.r)
    /\ resp.status = 400

\* the integers nearest to a rational: one of them, two at a tie
Nearest(q) == {n \in {Floor(q), Floor(q) + 1} : 2 * Abs(n * q[2] - q[1]) <= q[2]}

ClaimedBenchmark(industry) ==
    CASE industry = Manufacturing -> <<25, 100>>
      [] industry = Retail        -> <<12, 100>>
      [] industry = Services      -> <<35, 100>>
      [] industry = Agri          -> <<15, 100>>
      [] OTHER                    -> <<20, 100>>

ClaimedMargin(income, expense) ==
    IF IsPos(income) THEN RDiv(RSub(income, expense), income) ELSE <<0, 1>>

\* C5: healthScore = clamp(round((margin / benchmark) * 100), 0, 100): the
\* ratio is rounded to the nearest integer, not truncated, before clamping,
\* and the score is an integer in 0..100.
C5_ScoreIsRoundedRatio ==
    ret.called =>
        LET ratio == RDiv(RMul(ClaimedMargin(arg.income, arg.expense), <<100, 1>>),
                          ClaimedBenchmark(arg.industry))
        IN  /\ ret.value.score \in 0..100
            /\ \E n \in Nearest(ratio) : ret.value.score = Max2(0, Min2(n, 100))

\* C6 as the specification words it: the loan product is a function of the
\* score alone, with the labels "collateral-free tier A" from 85,
\* "working-capital NBFC tier" from 60 and "government grant scheme" below.
C6_SpecLabels ==
    ret.called =>
        ret.value.loan =
            IF ret.value.score >= 85 THEN "collateral-free tier A"
            ELSE IF ret.value.score >= 60 THEN "working-capital NBFC tier"
            ELSE "government grant scheme"

\* C6, amended: the loan product is a function of the score alone, with the
\* labels of the code: "SBI/HDFC - CGTMSE Collateral-Free" from 85,
\* "LendingKart - Working Capital (NBFC)" from 60 and "MUDRA Scheme - Govt
\* Grant" below; income 100000, expense 70000, Retail give score 100, the
\* first label and runway 43; income 0, expense 0 and an unknown industry give
\* score 0, the last label and runway 365.
C6_LoanTiering ==
    ret.called =>
        /\ ret.value.loan =
              IF ret.value.score >= 85 THEN "SBI/HDFC - CGTMSE Collateral-Free"
              ELSE IF ret.value.score >= 60 THEN "LendingKart - Working Capital (NBFC)"
              ELSE "MUDRA Scheme - Govt Grant"
        /\ arg = [income |-> <<100000, 1>>, expense |-> <<70000, 1>>, industry |-> Retail]
              => /\ ret.value.score = 100
                 /\ ret.value.loan = "SBI/HDFC - CGTMSE Collateral-Free"
                 /\ ret.value.runway = 43
        /\ arg = [income |-> <<0, 1>>, expense |-> <<0, 1>>, industry |-> Unknown]
              => /\ ret.value.score = 0
                 /\ ret.value.loan = "MUDRA Scheme - Govt Grant"
                 /\ ret.value.runway = 365

C6_Witness ==
    /\ ret.called
    /\ arg = [income |-> <<100000, 1>>, expense |-> <<70000, 1>>, industry |-> Retail]
    /\ ret.value.loan = "SBI/HDFC - CGTMSE Collateral-Free"

\* C7: a ledger with no negative amount and a positive income has the expense
\* income * 0.7, not zero, in the result and in the scoring; a ledger with a
\* negative amount has the absolute value of the sum of its negative amounts,
\* and no fallback.
C7_ExpenseSynthesis ==
    resp.status = 200 =>
        LET amts    == LedgerAmounts
            income  == Sum(SelectSeq(amts, IsPos))
            expense == resp.body.expense
        IN  /\ resp.body.income = income
            /\ NoNegative(amts) /\ IsPos(income) =>
                  /\ expense = RMul(income, <<7, 10>>)
                  /\ ~IsZero(expense)
            /\ ~NoNegative(amts) => expense = RAbs(Sum(SelectSeq(amts, IsNeg)))
            /\ audit.value.margin = Margin(income, expense)
            /\ audit.value.runway = Runway(income, expense)

C7_Witness ==
    /\ resp.status = 200
    /\ NoNegative(LedgerAmounts)
    /\ resp.body.income = <<100, 1>> /\ resp.body.expense = <<70, 1>>

ResultTypes ==
    /\ resp.body.score \in Int /\ resp.body.runway \in Int
    /\ resp.body.loan \in STRING
    /\ resp.body.income \in Int \X Int /\ resp.body.expense \in Int \X Int

\* C9 as the specification words it: the result payload's fields are exactly
\* income, expense, score, loan, report and runway, the narrative under
\* "report".
C9_SpecFieldSet ==
    resp.status = 200 =>
        /\ DOMAIN resp.body = {"income", "expense", "score", "loan", "report", "runway"}
        /\ ResultTypes

\* C9, amended: the result payload's fields are exactly income, expense,
\* score, loan, report_en and runway, the narrative text under "report_en",
\* score and runway integers and loan a string.
C9_ResultPayload ==
    resp.status = 200 =>
        /\ DOMAIN resp.body = {"income", "expense", "score", "loan", "report_en", "runway"}
        /\ resp.body.report_en = narr.value
        /\ ResultTypes

C9_Witness ==
    /\ resp.status = 200
    /\ ~req.ai.raises /\ Truthy(req.ai.text)
    /\ resp.body.report_en = <<"O", "K", ".">>

NoMatch(p, t) == \A i \in 1..Len(t) : MatchEnd(p, t, i) = 0

\* C8: the output of mask_pii holds no 10-digit phone number starting with 7,
\* 8 or 9, no run of 9 to 18 digits (read as the pattern reads it: a whole
\* token), no tax-ID of 5 letters, 4 digits and a letter and no email address;
\* an empty or absent input gives the empty string.
C8_MaskLeavesNoPattern ==
    ret.called =>
        /\ NoMatch("phone", ret.value)
        /\ NoMatch("acc", ret.value)
        /\ NoMatch("pan", ret.value)
        /\ NoMatch("email", ret.value)
        /\ arg.text \in {<<>>, None} => ret.value = <<>>

=============================================================================
